---- MODULE Spec2Model ----
(***************************************************************************)
(* ShiftSync pipeline, in three parts sharing one set of variables:        *)
(*   Pipeline/Scripts/model_segmentation.py, analyze_peak_hours            *)
(*     (Spec, SpecAgglo, SpecFigures);                                     *)
(*   Pipeline/Scripts/export_analysis_to_postgres.py, main and             *)
(*     prepare_data_for_postgres (SpecExport);                             *)
(*   Pipeline/preprocess.py, find_sensitive_threshold and the loop over    *)
(*     the order types (SpecThreshold), and the function called on a       *)
(*     whole dataset (SpecCall).                                           *)
(*                                                                         *)
(* The function aggregates the raw frame per (concept, hour), then for     *)
(* each concept runs up to three clusterings, picks the cluster with the   *)
(* highest mean as the peak cluster, and builds the 24-hour overlap table. *)
(*                                                                         *)
(* Numbers: normalized_order_count is a float in the program.  The model   *)
(* keeps aggregated values as exact rationals in units of 1/Scale, where   *)
(* Scale is a multiple of every possible group size, so a mean of raw      *)
(* integer values is an integer number of units.  Means of clusters are    *)
(* kept as fractions <<sum, size>> and compared by cross-multiplication.   *)
(*                                                                         *)
(* A data frame whose row order the program never relies on is a set of    *)
(* rows; a frame the program sorts or builds in hour order is a sequence.  *)
(* A nullable cell is <<>> (null) or <<v>>.                                *)
(***************************************************************************)
EXTENDS Integers, Sequences, FiniteSets, TLC

\* ------------------------------------------------------------------ bounds
MaxRows == 4          \* raw rows in the input frame

\* --------------------------------------------------------- program constants
NumHours == 24      \* range(24)
NumClusters == 3      \* n_clusters=3 / n_components=3

\* ------------------------------------------------------------ input domains
\* Concept "A" may be observed at any of ObsHours with any value; concept
\* "B" is a sibling with at most two observed hours, there to exercise the
\* loop over concepts and a concept too small to cluster.
Concepts == {"A", "B"}
ObsHours == {8, 9, 18, 23}
SiblingHours == {8, 18}
Methods  == {"kmeans", "gmm", "agglo"}
\* raw normalized_order_count values; two rows of one hour average to 3/2
RawValues == {1, 2}

ConceptIdx(c) == IF c = "A" THEN 0 ELSE 1

Rows ==
  [concept : {"A"}, hour : ObsHours, normalized_order_count : RawValues]
  \cup [concept : {"B"}, hour : SiblingHours, normalized_order_count : {1}]

RowKey(r) == (ConceptIdx(r.concept) * NumHours + r.hour) * NumHours
             + r.normalized_order_count

\* Input frames: row order is irrelevant to group_by/mean, so one
\* representative (rows in key order) stands for each multiset of rows.
Frames ==
  UNION { { s \in [1..n -> Rows] :
              \A i \in 1..(n - 1) : RowKey(s[i]) <= RowKey(s[i + 1]) }
          : n \in 0..MaxRows }

\* ----------------------------------------------------------------- helpers
RECURSIVE Fact(_)
Fact(n) == IF n <= 1 THEN 1 ELSE n * Fact(n - 1)

Scale == Fact(MaxRows)

RECURSIVE SumOf(_, _)
\* sum of f[x] for x in S
SumOf(f, S) ==
  IF S = {} THEN 0
  ELSE LET x == CHOOSE y \in S : TRUE IN f[x] + SumOf(f, S \ {x})

Min(S) == CHOOSE x \in S : \A y \in S : x <= y

RECURSIVE SortByHour(_)
\* DataFrame.sort('hour'): rows of the set S as a sequence, hours ascending
SortByHour(S) ==
  IF S = {} THEN <<>>
  ELSE LET r == CHOOSE x \in S : \A y \in S : x.hour <= y.hour
       IN <<r>> \o SortByHour(S \ {r})

\* ------------------------------------------------------------- aggregation
\* data.group_by(['concept','hour']).agg(pl.mean('normalized_order_count'))
GroupByMean(frame) ==
  LET keys == { <<frame[i].concept, frame[i].hour>> : i \in DOMAIN frame }
      idx(k) == { i \in DOMAIN frame :
                    frame[i].concept = k[1] /\ frame[i].hour = k[2] }
      val == [i \in DOMAIN frame |-> frame[i].normalized_order_count]
  IN { [concept |-> k[1], hour |-> k[2],
        normalized_order_count |->
           (Scale * SumOf(val, idx(k))) \div Cardinality(idx(k))] : k \in keys }

\* concept_hourly_avg.select('concept').unique()
UniqueConcepts(avg) == { r.concept : r \in avg }

\* concept_hourly_avg.filter(pl.col('concept') == concept)
FilterConcept(avg, c) == { r \in avg : r.concept = c }

HoursOf(cd) == { r.hour : r \in cd }
ValueAt(cd, h) == (CHOOSE r \in cd : r.hour = h).normalized_order_count

\* ---------------------------------------------------------------- clustering
\* A clustering is kept as the partition of the concept's hours that the
\* 'cluster' column induces; the label numbers themselves are only ever
\* used to group rows and to filter the rows of one group.
PartitionsOf(H) ==
  { { b \in { { h \in H : f[h] = l } : l \in 0..(NumClusters - 1) } : b # {} }
    : f \in [H -> 0..(NumClusters - 1)] }

\* both libraries label a sample as a function of its value alone
SameValueTogether(P, cd) ==
  \A h1, h2 \in HoursOf(cd) :
     ValueAt(cd, h1) = ValueAt(cd, h2) =>
        \A b \in P : (h1 \in b) = (h2 \in b)

\* KMeans(n_clusters=3, random_state=42, n_init=10).fit_predict(X) on one
\* feature: each sample goes to its nearest centre, so every cluster is an
\* interval of values.  Which intervals depends on the seeded restarts.
KMeansPartitions(cd) ==
  { P \in PartitionsOf(HoursOf(cd)) :
      /\ SameValueTogether(P, cd)
      /\ \A b \in P : \A h1, h2 \in b : \A h \in HoursOf(cd) :
            ( ValueAt(cd, h1) <= ValueAt(cd, h) /\ ValueAt(cd, h) <= ValueAt(cd, h2) )
               => h \in b }

\* GaussianMixture(n_components=3, random_state=42).fit_predict(X): each
\* sample goes to its most probable component.
GmmPartitions(cd) ==
  { P \in PartitionsOf(HoursOf(cd)) : SameValueTogether(P, cd) }

\* Ward linkage on one feature: merging clusters p and q costs
\*   |p||q| / (|p|+|q|) * (mean p - mean q)^2
\*   = (sum_p*|q| - sum_q*|p|)^2 / (|p||q|(|p|+|q|))      as <<num, den>>
WardCost(p, q, cd) ==
  LET v  == [h \in HoursOf(cd) |-> ValueAt(cd, h)]
      sp == SumOf(v, p)
      sq == SumOf(v, q)
      np == Cardinality(p)
      nq == Cardinality(q)
      d  == sp * nq - sq * np
  IN << d * d, np * nq * (np + nq) >>

FracLeq(a, b) == a[1] * b[2] <= b[1] * a[2]
FracLess(a, b) == a[1] * b[2] < b[1] * a[2]
FracEq(a, b) == a[1] * b[2] = b[1] * a[2]

RECURSIVE WardCut(_, _)
\* AgglomerativeClustering(n_clusters=3).fit_predict(X): start from one
\* cluster per sample and merge a cheapest pair until 3 clusters are left;
\* equal costs are resolved by the library's internal order.
WardCut(P, cd) ==
  IF Cardinality(P) <= NumClusters THEN {P}
  ELSE LET pairs == { pq \in SUBSET P : Cardinality(pq) = 2 }
           cost(pq) == LET p == CHOOSE x \in pq : TRUE
                           q == CHOOSE x \in pq : x # p
                       IN WardCost(p, q, cd)
           cheapest == { pq \in pairs :
                           \A other \in pairs : FracLeq(cost(pq), cost(other)) }
       IN UNION { WardCut((P \ pq) \cup { UNION pq }, cd) : pq \in cheapest }

AggloPartitions(cd) == WardCut({ {h} : h \in HoursOf(cd) }, cd)

\* every estimator rejects fewer samples than clusters with a ValueError
TooFewSamples(cd) == Cardinality(cd) < NumClusters

\* ------------------------------------------------------------ peak selection
\* pl.mean('normalized_order_count') of one group, as <<sum, size>>
ClusterMean(b, cd) ==
  << SumOf([h \in HoursOf(cd) |-> ValueAt(cd, h)], b), Cardinality(b) >>

\* group_by('cluster') yields the groups in no particular order
GroupOrders(P) ==
  { s \in [1..Cardinality(P) -> P] : \A i, j \in DOMAIN s : i # j => s[i] # s[j] }

RECURSIVE SortAsc(_, _)
\* variant: the sort loses descending=True
SortAsc(s, cd) ==
  IF Len(s) <= 1 THEN s
  ELSE LET rest == SortAsc(Tail(s), cd)
           x    == Head(s)
           larger == { i \in DOMAIN rest :
                         FracLess(ClusterMean(x, cd), ClusterMean(rest[i], cd)) }
           k == IF larger = {} THEN Len(rest) + 1 ELSE Min(larger)
       IN SubSeq(rest, 1, k - 1) \o <<x>> \o SubSeq(rest, k, Len(rest))

RECURSIVE SortDesc(_, _)
\* .sort('cluster_mean', descending=True): groups with equal means keep the
\* order in which group_by produced them
SortDesc(s, cd) ==
  IF Len(s) <= 1 THEN s
  ELSE LET rest == SortDesc(Tail(s), cd)
           x    == Head(s)
           \* position of the first element of rest with a smaller mean
           smaller == { i \in DOMAIN rest :
                          FracLess(ClusterMean(rest[i], cd), ClusterMean(x, cd)) }
           k == IF smaller = {} THEN Len(rest) + 1 ELSE Min(smaller)
       IN SubSeq(rest, 1, k - 1) \o <<x>> \o SubSeq(rest, k, Len(rest))

\* peak_cluster = cluster_means[0, 'cluster']
PeakCluster(order, cd) == SortDesc(order, cd)[1]

\* concept_data_xx.filter(pl.col('cluster') == peak_cluster)
PeakRows(b, cd) == { r \in cd : r.hour \in b }

\* peak_hours.select(['hour','normalized_order_count']).sort('hour')
StoredPeak(rows) ==
  SortByHour({ [hour |-> r.hour, normalized_order_count |-> r.normalized_order_count]
               : r \in rows })

\* ------------------------------------------------------------ overlap table
\* variant: a flag "some method calls the hour a peak" instead of a count
OverlapCountAny(by_method, hour) ==
  IF \E m \in DOMAIN by_method : hour \in by_method[m] THEN 1 ELSE 0

\* variant: the hour is looked up one off
OverlapCountShifted(by_method, hour) ==
  Cardinality({ m \in DOMAIN by_method : (hour + 1) \in by_method[m] })

\* count = sum(1 for method, hours in peak_hours_by_method.items() if hour in hours)
OverlapCount(by_method, hour) ==
  Cardinality({ m \in DOMAIN by_method : hour \in by_method[m] })

\* variant: thresholds instead of equalities, in the wrong order
OverlapCategoryAtLeast(count) ==
  IF count >= 1 THEN "Low (1)"
  ELSE IF count >= 2 THEN "Medium (2)"
  ELSE IF count >= 3 THEN "High (3)"
  ELSE "None (0)"

\* pl.when(== 3) 'High (3)' .when(== 2) 'Medium (2)' .when(== 1) 'Low (1)'
\* .otherwise('None (0)')
OverlapCategory(count) ==
  IF count = 3 THEN "High (3)"
  ELSE IF count = 2 THEN "Medium (2)"
  ELSE IF count = 1 THEN "Low (1)"
  ELSE "None (0)"

RECURSIVE SetToSeq(_)
SetToSeq(S) ==
  IF S = {} THEN <<>>
  ELSE LET x == CHOOSE y \in S : TRUE IN <<x>> \o SetToSeq(S \ {x})

RECURSIVE JoinLeftFillZero(_, _, _)
\* variant: the join is followed by fill_null(0)
JoinLeftFillZero(left, right, i) ==
  IF i > Len(left) THEN <<>>
  ELSE LET l == left[i]
           matches == SetToSeq({ r.normalized_order_count : r \in
                                   { x \in right : x.hour = l.hour } })
           out == IF matches = <<>>
                  THEN << [hour |-> l.hour, overlap_count |-> l.overlap_count,
                           normalized_order_count |-> <<0>>] >>
                  ELSE [k \in DOMAIN matches |->
                          [hour |-> l.hour, overlap_count |-> l.overlap_count,
                           normalized_order_count |-> << matches[k] >>]]
       IN out \o JoinLeftFillZero(left, right, i + 1)

RECURSIVE JoinLeft(_, _, _)
\* all_hours.with_columns(overlap_count).join(right, on='hour', how='left'):
\* one output row per matching right row, or one row with a null when the
\* hour has no match.  left is the sequence of the left frame's rows.
JoinLeft(left, right, i) ==
  IF i > Len(left) THEN <<>>
  ELSE LET l == left[i]
           matches == SetToSeq({ r.normalized_order_count : r \in
                                   { x \in right : x.hour = l.hour } })
           out == IF matches = <<>>
                  THEN << [hour |-> l.hour, overlap_count |-> l.overlap_count,
                           normalized_order_count |-> <<>>] >>
                  ELSE [k \in DOMAIN matches |->
                          [hour |-> l.hour, overlap_count |-> l.overlap_count,
                           normalized_order_count |-> << matches[k] >>]]
       IN out \o JoinLeft(left, right, i + 1)

\* all_hours = pl.DataFrame({'hour': range(24)}) with the overlap_count column
AllHours(by_method) ==
  [i \in 1..NumHours |-> [hour |-> i - 1, overlap_count |-> OverlapCount(by_method, i - 1)]]

\* overlap_df with the 'overlap_category' column added
OverlapTable(by_method, cd) ==
  LET joined == JoinLeft(AllHours(by_method), cd, 1)
  IN [i \in DOMAIN joined |->
        [hour |-> joined[i].hour,
         overlap_count |-> joined[i].overlap_count,
         normalized_order_count |-> joined[i].normalized_order_count,
         overlap_category |-> OverlapCategory(joined[i].overlap_count)]]

\* if overlap and len(peak_hours_by_method) > 0
OverlapRequested(flag, by_method) == flag /\ Cardinality(DOMAIN by_method) > 0

\* ------------------------------------------------------------------- state
VARIABLES
  data,                  \* the input frame (raw rows)
  kmeans, gmm, agglo,    \* method flags
  overlap,               \* overlap flag
  graph,                 \* graph flag
  concept_hourly_avg,    \* aggregated frame
  concepts,              \* concepts the loop has not visited yet
  concept,               \* the loop variable ("" before the first iteration)
  concept_data,          \* rows of the current concept
  peak_hours_by_method,  \* method -> set of peak hours, current concept
  cluster,               \* the last 'cluster' column fitted for the current concept
  results,               \* concept -> (key -> frame)
  pc,                    \* position in analyze_peak_hours
  error,                 \* exception leaving the function, "none" if none
  returned,              \* TRUE once results has been returned to the caller
  visited,               \* the keys of results, in insertion order
  figures,               \* number of figures created and shown so far
  peak_hours_df,         \* prepare_data_for_postgres: peak hours by method
  overlap_df,            \* prepare_data_for_postgres: the name overlap_df
  summary_df,            \* prepare_data_for_postgres: summary rows
  data_for_postgres,     \* what prepare_data_for_postgres returned to main
  df,                    \* preprocess.py: order type -> its durations, sorted
  quantile_min,          \* argument: first grid point, in units of 1/QuantileUnit
  quantile_max,          \* argument: end of the grid (excluded)
  quantile_step,         \* argument: grid step
  window_length,         \* argument: window of the first smoothing
  polyorder,             \* argument: polynomial order of the first smoothing
  order_types,           \* order types the threshold loop has not visited yet
  order_type,            \* the loop variable ("" before the first iteration)
  type_df,               \* durations of the current order type
  arg_df,                \* the frame find_sensitive_threshold was called on
  quantiles,             \* the quantile grid
  quantile_values,       \* the column quantile at each grid point
  smooth_second_derivatives,  \* after both smoothings, times both filter scales
  start_idx,             \* where the scan starts
  scan_hit,              \* index the scan stopped at, -1 if it ran to the end
  non_linear_index,      \* the inflection index
  thresholds_per_type,   \* order type -> threshold result
  skipped,               \* order types the loop warned about
  filtered_datasets,     \* the frames appended by the loop
  combined_filtered_df   \* the frame written to cleansed_orders

vars == << data, kmeans, gmm, agglo, overlap, concept_hourly_avg, concepts,
           concept, concept_data, peak_hours_by_method, cluster, results,
           pc, error, returned, graph, visited, figures,
           peak_hours_df, overlap_df, summary_df, data_for_postgres,
           df, quantile_min, quantile_max, quantile_step, window_length,
           polyorder, order_types, order_type, type_df,
           arg_df, quantiles, quantile_values, smooth_second_derivatives, start_idx,
           scan_hit, non_linear_index, thresholds_per_type, skipped,
           filtered_datasets, combined_filtered_df >>

inputs == << data, kmeans, gmm, agglo, overlap, graph >>

exported == << peak_hours_df, overlap_df, summary_df, data_for_postgres >>

\* the state of preprocess.py
thresholding ==
  << df, quantile_min, quantile_max, quantile_step, window_length, polyorder,
     order_types, order_type, type_df,
     arg_df, quantiles, quantile_values, smooth_second_derivatives, start_idx,
     scan_hit, non_linear_index, thresholds_per_type, skipped,
     filtered_datasets, combined_filtered_df >>

EmptyDict == [k \in {} |-> {}]
NoCluster == [method |-> "none", groups |-> {}]

\* nothing has run yet
Idle ==
  /\ concept_hourly_avg = {}
  /\ concepts = {}
  /\ concept = ""
  /\ concept_data = {}
  /\ peak_hours_by_method = EmptyDict
  /\ cluster = NoCluster
  /\ results = EmptyDict
  /\ pc = "start"
  /\ error = "none"
  /\ returned = FALSE
  /\ visited = << >>
  /\ figures = 0
  /\ peak_hours_df = << >>
  /\ overlap_df = << >>
  /\ summary_df = << >>
  /\ data_for_postgres = EmptyDict

\* preprocess.py before its threshold loop: find_sensitive_threshold has not
\* been called (its arguments are unbound, written 0), no threshold, nothing
\* appended
IdleThresholds ==
  /\ quantile_min = 0
  /\ quantile_max = 0
  /\ quantile_step = 0
  /\ window_length = 0
  /\ polyorder = 0
  /\ order_types = {}
  /\ order_type = ""
  /\ type_df = << >>
  /\ arg_df = EmptyDict
  /\ quantiles = << >>
  /\ quantile_values = << >>
  /\ smooth_second_derivatives = << >>
  /\ start_idx = 0
  /\ scan_hit = -1
  /\ non_linear_index = -1
  /\ thresholds_per_type = EmptyDict
  /\ skipped = {}
  /\ filtered_datasets = << >>
  /\ combined_filtered_df = << >>

\* the segmentation and the export do not read the orders
NoOrders ==
  /\ df = EmptyDict
  /\ IdleThresholds

Init ==
  /\ data \in Frames
  /\ kmeans \in BOOLEAN
  /\ gmm \in BOOLEAN
  /\ agglo \in BOOLEAN
  /\ overlap \in BOOLEAN
  /\ graph = FALSE        \* the default
  /\ Idle
  /\ NoOrders

\* lines 37-46: aggregate, list the concepts, results = {}
Aggregate ==
  /\ pc = "start"
  /\ concept_hourly_avg' = GroupByMean(data)
  /\ concepts' = UniqueConcepts(GroupByMean(data))
  /\ results' = EmptyDict
  /\ pc' = "loop"
  /\ UNCHANGED << inputs, exported, thresholding, concept, concept_data, peak_hours_by_method, cluster,
                  error, returned, visited, figures >>

\* lines 48-56: next iteration of `for concept in concepts`; unique() gives
\* the concepts in no particular order
BeginConcept ==
  /\ pc = "loop"
  /\ \E c \in concepts :
       /\ concept' = c
       /\ concepts' = concepts \ {c}
       /\ results' = results @@ (c :> EmptyDict)
       /\ visited' = Append(visited, c)
       /\ concept_data' = FilterConcept(concept_hourly_avg, c)
  /\ peak_hours_by_method' = EmptyDict
  /\ cluster' = NoCluster
  /\ pc' = "kmeans"
  /\ UNCHANGED << inputs, exported, thresholding, concept_hourly_avg, error, returned, figures >>

\* the ValueError of fit_predict leaves analyze_peak_hours: nothing catches it
Raise ==
  /\ pc' = "raised"
  /\ error' = "ValueError"
  /\ UNCHANGED << inputs, exported, thresholding, concept_hourly_avg, concepts, concept, concept_data,
                  peak_hours_by_method, cluster, results, returned, visited,
                  figures >>

\* one `if <method>:` block: fit, pick the peak cluster, store
RunMethod(m, enabled, partitions, next) ==
  IF ~enabled
  THEN /\ pc' = next
       /\ UNCHANGED << inputs, exported, thresholding, concept_hourly_avg, concepts, concept, concept_data,
                       peak_hours_by_method, cluster, results, error, returned,
                       visited, figures >>
  ELSE IF TooFewSamples(concept_data)
  THEN Raise
  ELSE \E P \in partitions : \E order \in GroupOrders(P) :
         LET peak_hours == PeakRows(PeakCluster(order, concept_data), concept_data)
         IN /\ cluster' = [method |-> m, groups |-> P]
            /\ results' = [results EXCEPT ![concept] = @ @@ (m :> StoredPeak(peak_hours))]
            /\ peak_hours_by_method' =
                  peak_hours_by_method @@ (m :> { r.hour : r \in peak_hours })
            /\ pc' = next
            /\ UNCHANGED << inputs, exported, thresholding, concept_hourly_avg, concepts, concept,
                            concept_data, error, returned, visited, figures >>

\* lines 59-82
KMeansStep ==
  /\ pc = "kmeans"
  /\ RunMethod("kmeans", kmeans, KMeansPartitions(concept_data), "gmm")

GmmStepUnderKMeansKey ==
  /\ pc = "gmm"
  /\ RunMethod("kmeans", gmm, GmmPartitions(concept_data), "agglo")

\* lines 85-108
GmmStep ==
  /\ pc = "gmm"
  /\ RunMethod("gmm", gmm, GmmPartitions(concept_data), "agglo")

\* lines 111-134
AggloStep ==
  /\ pc = "agglo"
  /\ RunMethod("agglo", agglo, AggloPartitions(concept_data), "overlap")

OverlapFiguresUnderGraphOnly(table_built, graph_flag) ==
  IF table_built /\ graph_flag THEN 1 ELSE 0

\* lines 172-207: the agreement figure is created and shown whenever the
\* agreement table is built, regardless of the graph parameter
OverlapFigures(table_built, graph_flag) ==
  IF table_built THEN 1 ELSE 0

\* lines 210-284: the figure of the individual clusterings is created and
\* shown only under `graph`, when a method is enabled
ClusteringFigures(graph_flag, any_method) ==
  IF graph_flag /\ any_method THEN 1 ELSE 0

\* lines 137-207: the agreement table, then its figure, up to the plt.show()
\* of line 207
OverlapStep ==
  /\ pc = "overlap"
  /\ figures' = figures + OverlapFigures(OverlapRequested(overlap, peak_hours_by_method),
                                         graph)
  /\ results' =
       IF OverlapRequested(overlap, peak_hours_by_method)
       THEN [results EXCEPT ![concept] =
               @ @@ ("overlap_analysis" :> OverlapTable(peak_hours_by_method, concept_data))]
       ELSE results
  /\ pc' = "graph"
  /\ UNCHANGED << inputs, exported, thresholding, concept_hourly_avg, concepts, concept, concept_data,
                  peak_hours_by_method, cluster, error, returned, visited >>

\* lines 210-284: the figure of the individual clusterings, up to the
\* plt.show() of line 284, which ends the iteration
GraphStep ==
  /\ pc = "graph"
  /\ figures' = figures + ClusteringFigures(graph, kmeans \/ gmm \/ agglo)
  /\ pc' = "loop"
  /\ UNCHANGED << inputs, exported, thresholding, concept_hourly_avg, concepts, concept, concept_data,
                  peak_hours_by_method, cluster, results, error, returned, visited >>

\* line 286
Return ==
  /\ pc = "loop"
  /\ concepts = {}
  /\ pc' = "done"
  /\ returned' = TRUE
  /\ UNCHANGED << inputs, exported, thresholding, concept_hourly_avg, concepts, concept, concept_data,
                  peak_hours_by_method, cluster, results, error, visited,
                  figures >>

Next ==
  \/ Aggregate
  \/ BeginConcept
  \/ KMeansStep
  \/ GmmStep
  \/ AggloStep
  \/ OverlapStep
  \/ GraphStep
  \/ Return

Spec == Init /\ [][Next]_vars

\* ----------------------------------------------- vocabulary of the properties
EnabledMethods ==
  { m \in Methods : \/ (m = "kmeans" /\ kmeans)
                    \/ (m = "gmm" /\ gmm)
                    \/ (m = "agglo" /\ agglo) }
NumEnabled == Cardinality(EnabledMethods)

\* hours with at least one raw row for concept c
Observed(c) == { data[i].hour : i \in { j \in DOMAIN data : data[j].concept = c } }
RawAt(c, h) == { i \in DOMAIN data : data[i].concept = c /\ data[i].hour = h }

\* the loop body has stored every result of concept c (at most the figure of
\* lines 210-284 is still to be shown)
Finished(c) ==
  /\ c \in DOMAIN results
  /\ ~(c = concept /\ pc \in {"kmeans", "gmm", "agglo", "overlap", "raised"})

HasTable(c) == c \in DOMAIN results /\ "overlap_analysis" \in DOMAIN results[c]
TableOf(c) == results[c]["overlap_analysis"]
HourSet(frame) == { frame[i].hour : i \in DOMAIN frame }

OneRowPerHour(t) ==
  /\ Len(t) = NumHours
  /\ \A h \in 0..(NumHours - 1) : Cardinality({ i \in DOMAIN t : t[i].hour = h }) = 1
  /\ \A i \in DOMAIN t : t[i].hour \in 0..(NumHours - 1)

\* every agreement table that is built has exactly one row per hour 0..23, and
\* a table is built for a finished concept exactly when overlap=True and at
\* least one method is enabled
AgreementTableShape ==
  \A c \in DOMAIN results :
     /\ HasTable(c) => (overlap /\ NumEnabled > 0 /\ OneRowPerHour(TableOf(c)))
     /\ (Finished(c) /\ overlap /\ NumEnabled > 0) => HasTable(c)

\* ---------------------------------------------------------------------- C1
\* C1 as claimed: once analyze_peak_hours has ended with at least one method
\* enabled, the caller holds, for every concept of the input, an agreement
\* table with exactly one row per hour 0..23, whichever hours were observed.
C1_AsClaimed ==
  (pc \in {"done", "raised"} /\ NumEnabled > 0) =>
     \A c \in { data[i].concept : i \in DOMAIN data } :
        /\ returned
        /\ HasTable(c)
        /\ OneRowPerHour(TableOf(c))

\* the call asked for the overlap analysis with a method enabled and ended in
\* the library's ValueError on a concept observed at fewer than NumClusters
\* hours: that concept has no agreement table and nothing is returned
C1_Witness ==
  /\ pc = "raised"
  /\ overlap
  /\ NumEnabled > 0
  /\ ~returned
  /\ Cardinality(Observed(concept)) < NumClusters
  /\ ~HasTable(concept)

\* ---------------------------------------------------------------------- C2
\* C2: in every agreement row, overlap_count is the number of enabled methods
\* whose stored peak hours contain the row's hour; it never exceeds the number
\* of enabled methods nor 3.
C2_OverlapCountIsAgreement ==
  \A c \in DOMAIN results :
     HasTable(c) =>
        /\ EnabledMethods \subseteq DOMAIN results[c]
        /\ \A i \in DOMAIN TableOf(c) :
              LET row == TableOf(c)[i]
              IN /\ row.overlap_count =
                      Cardinality({ m \in EnabledMethods :
                                      row.hour \in HourSet(results[c][m]) })
                 /\ row.overlap_count <= NumEnabled
                 /\ row.overlap_count <= 3

C2_Witness ==
  \E c \in DOMAIN results :
     /\ HasTable(c)
     /\ NumEnabled = 3
     /\ \E i, j \in DOMAIN TableOf(c) :
          /\ TableOf(c)[i].overlap_count = 3
          /\ TableOf(c)[j].overlap_count = 2

\* ---------------------------------------------------------------------- C3
\* C3: in every agreement row the category is fixed by overlap_count:
\* 3 -> High, 2 -> Medium, 1 -> Low, 0 -> None, and overlap_count is one of
\* 0, 1, 2, 3.
C3_CategoryOfCount ==
  \A c \in DOMAIN results :
     HasTable(c) =>
        \A i \in DOMAIN TableOf(c) :
           LET row == TableOf(c)[i]
           IN /\ row.overlap_count \in 0..3
              /\ (row.overlap_count = 3) = (row.overlap_category = "High (3)")
              /\ (row.overlap_count = 2) = (row.overlap_category = "Medium (2)")
              /\ (row.overlap_count = 1) = (row.overlap_category = "Low (1)")
              /\ (row.overlap_count = 0) = (row.overlap_category = "None (0)")

C3_Witness ==
  \E c \in DOMAIN results :
     /\ HasTable(c)
     /\ \A n \in 0..3 : \E i \in DOMAIN TableOf(c) :
           TableOf(c)[i].overlap_count = n

\* ---------------------------------------------------------------------- C4
\* C4 as claimed: with no method enabled (and overlap analysis requested),
\* every finished concept still has 24 agreement rows, all with overlap_count
\* 0 and category None, and with normalized_order_count filled in for every
\* observed hour.
C4_AsClaimed ==
  \A c \in DOMAIN results :
     (Finished(c) /\ NumEnabled = 0 /\ overlap) =>
        /\ HasTable(c)
        /\ OneRowPerHour(TableOf(c))
        /\ \A i \in DOMAIN TableOf(c) :
              /\ TableOf(c)[i].overlap_count = 0
              /\ TableOf(c)[i].overlap_category = "None (0)"
              /\ (TableOf(c)[i].hour \in Observed(c)) =>
                    TableOf(c)[i].normalized_order_count # <<>>

\* ---------------------------------------------------------------------- C5
\* C5: the peak hours stored for a method are hours observed for the concept,
\* and every agreement row of an unobserved hour has overlap_count 0.
C5_PeaksAreObserved ==
  \A c \in DOMAIN results :
     /\ \A m \in DOMAIN results[c] \cap Methods :
           HourSet(results[c][m]) \subseteq Observed(c)
     /\ HasTable(c) =>
           \A i \in DOMAIN TableOf(c) :
              (TableOf(c)[i].hour \notin Observed(c)) =>
                 TableOf(c)[i].overlap_count = 0

C5_Witness ==
  \E c \in DOMAIN results :
     /\ HasTable(c)
     /\ \E i, j \in DOMAIN TableOf(c) :
          /\ TableOf(c)[i].hour \in Observed(c)
          /\ TableOf(c)[i].overlap_count > 0
          /\ TableOf(c)[j].hour = TableOf(c)[i].hour + 1
          /\ TableOf(c)[j].hour \notin Observed(c)

\* ---------------------------------------------------------------------- C6
\* C6: in every agreement row, normalized_order_count is the mean of the raw
\* values of the concept at that hour when the hour was observed, and null
\* (not 0) when it was not.
C6_ValueOrNull ==
  \A c \in DOMAIN results :
     HasTable(c) =>
        \A i \in DOMAIN TableOf(c) :
           LET row == TableOf(c)[i]
               raw == RawAt(c, row.hour)
               val == [k \in DOMAIN data |-> data[k].normalized_order_count]
           IN IF raw = {}
              THEN row.normalized_order_count = <<>>
              ELSE /\ Len(row.normalized_order_count) = 1
                   /\ row.normalized_order_count[1] * Cardinality(raw)
                         = Scale * SumOf(val, raw)

C6_Witness ==
  \E c \in DOMAIN results :
     /\ HasTable(c)
     /\ \E h \in Observed(c) :
          \E k1, k2 \in RawAt(c, h) :
             data[k1].normalized_order_count # data[k2].normalized_order_count
     /\ \E i \in DOMAIN TableOf(c) : TableOf(c)[i].normalized_order_count = <<>>

\* ---------------------------------------------------------------------- C7
\* mean of the aggregated values of the hours in g, as <<sum, size>>
MeanOfHours(g) ==
  << SumOf([h \in HoursOf(concept_data) |-> ValueAt(concept_data, h)], g),
     Cardinality(g) >>

\* C7: after any method has run for a concept, its peak hours are exactly the
\* members of one group of that method's clustering, no other group has a
\* higher mean, and when one group's mean is strictly highest the peak hours
\* are that group; the stored frame lists exactly those hours.
C7_PeakIsHighestMeanGroup ==
  (cluster.method # "none" /\ pc # "raised") =>
     LET m    == cluster.method
         peak == peak_hours_by_method[m]
     IN /\ peak \in cluster.groups
        /\ \A g \in cluster.groups : FracLeq(MeanOfHours(g), MeanOfHours(peak))
        /\ \A g \in cluster.groups :
              (\A o \in cluster.groups \ {g} : FracLess(MeanOfHours(o), MeanOfHours(g)))
                 => peak = g
        /\ HourSet(results[concept][m]) = peak

C7_Witness ==
  /\ cluster.method = "gmm"
  /\ pc = "agglo"
  /\ Cardinality(cluster.groups) >= 2
  /\ \E g \in cluster.groups :
       /\ Cardinality(g) = 2
       /\ \A o \in cluster.groups \ {g} : FracLess(MeanOfHours(o), MeanOfHours(g))
       /\ peak_hours_by_method["gmm"] = g

\* ---------------------------------------------------------------------- C8
\* the numerically smaller of two hour sets of the same size
HoursBefore(g, o) ==
  \E h \in g \ o : \A x \in o \ g : h < x

\* the group the tie-break designates: highest mean, then fewest hours, then
\* numerically smallest hours
TieBreakWinner(groups) ==
  CHOOSE g \in groups :
     \A o \in groups \ {g} :
        \/ FracLess(MeanOfHours(o), MeanOfHours(g))
        \/ /\ FracEq(MeanOfHours(o), MeanOfHours(g))
           /\ \/ Cardinality(g) < Cardinality(o)
              \/ (Cardinality(g) = Cardinality(o) /\ HoursBefore(g, o))

\* C8 as claimed: among groups tied on the highest mean the peak group is the
\* one with the fewest hours, then the one with the smallest hours, whatever
\* order the groups were enumerated in.
C8_AsClaimed ==
  (cluster.method # "none" /\ pc # "raised") =>
     peak_hours_by_method[cluster.method] = TieBreakWinner(cluster.groups)

\* Runs with the agglomerative method alone: its clustering is fixed by the
\* data (up to equal merge costs), so a tie between groups is a tie the
\* program meets.
InitAgglo == Init /\ ~kmeans /\ ~gmm /\ agglo
SpecAgglo == InitAgglo /\ [][Next]_vars

\* ---------------------------------------------------------------------- C9
\* C9 as claimed: a concept with exactly 3 observed hours is clustered by
\* every enabled method, and a concept with fewer than 3 makes the function
\* fail with DegenerateInputError and nothing else.
C9_AsClaimed ==
  /\ (pc = "raised") => error = "DegenerateInputError"
  /\ (cluster.method # "none") => Cardinality(Observed(concept)) >= 3
  /\ (concept # "" /\ Cardinality(Observed(concept)) = 3) => pc # "raised"

\* --------------------------------------------------------------------- C10
\* C10 as claimed: when analyze_peak_hours ends, the caller has the results
\* of every concept that can be clustered: each such concept has an entry for
\* every enabled method, whatever happened to the other concepts.
C10_AsClaimed ==
  (pc \in {"done", "raised"}) =>
     /\ returned
     /\ \A c \in UniqueConcepts(concept_hourly_avg) :
           (Cardinality(Observed(c)) >= NumClusters) =>
              /\ c \in DOMAIN results
              /\ EnabledMethods \subseteq DOMAIN results[c]

\* --------------------------------------------------------------------- C11
\* C11: for every concept whose iteration has finished, whatever combination
\* of the three method flags is on, the keys 'kmeans', 'gmm' and 'agglo' of
\* its result are exactly the enabled methods; while a concept is being
\* processed its method keys are enabled methods.
C11_KeysAreEnabledMethods ==
  \A c \in DOMAIN results :
     /\ (DOMAIN results[c]) \cap Methods \subseteq EnabledMethods
     /\ Finished(c) =>
           \A m \in Methods : (m \in DOMAIN results[c]) <=> (m \in EnabledMethods)

C11_Witness ==
  /\ pc = "done"
  /\ kmeans /\ ~gmm /\ agglo
  /\ \E c \in DOMAIN results :
        (DOMAIN results[c]) \cap Methods = {"kmeans", "agglo"}

\* --------------------------------------------------------------------- C18
\* C18 as claimed: the peak hours a method stored for a concept are the peak
\* hours of every other run on the same input, that is of every clustering
\* the method can return for the concept's rows and of every order in which
\* the clusters can be enumerated.
C18_AsClaimed ==
  (cluster.method = "agglo" /\ pc # "raised") =>
     \A P \in AggloPartitions(concept_data) : \A order \in GroupOrders(P) :
        { r.hour : r \in PeakRows(PeakCluster(order, concept_data), concept_data) }
           = peak_hours_by_method["agglo"]

\* --------------------------------------------------------------------- C19
\* C19 as claimed: with graph=False no figure is ever created or shown.
C19_AsClaimed ==
  ~graph => figures = 0

\* C19 amended: with graph=False the figures created and shown are exactly
\* one per concept whose agreement table has been built (so none when
\* overlap=False or no method is enabled), and no step changes the input
\* data.
C19_FiguresOnlyForAgreementTables ==
  /\ [](~graph => figures = Cardinality({ c \in DOMAIN results : HasTable(c) }))
  /\ [][data' = data]_vars

C19_Witness ==
  /\ ~graph
  /\ pc = "done"
  /\ figures = 2
  /\ \A c \in Concepts : HasTable(c)

\* ======================================================================
\* export_analysis_to_postgres.py: main() runs the analysis with every method
\* and the overlap analysis on, then prepare_data_for_postgres flattens the
\* results into three tables.
\* ======================================================================

\* Inputs of the runs of main(): concept "A" observed at hours 8, 9, 18 and
\* concept "B" at hours 8, 18, 23, so that both can be clustered.
ExportFrames ==
  LET a == { << >> } \cup
           { << [concept |-> "A", hour |-> 8, normalized_order_count |-> x],
                [concept |-> "A", hour |-> 9, normalized_order_count |-> y],
                [concept |-> "A", hour |-> 18, normalized_order_count |-> z] >>
             : x \in RawValues, y \in RawValues, z \in RawValues }
      b == { << >>,
             << [concept |-> "B", hour |-> 8, normalized_order_count |-> 1],
                [concept |-> "B", hour |-> 18, normalized_order_count |-> 1],
                [concept |-> "B", hour |-> 23, normalized_order_count |-> 1] >> }
  IN { p \o q : p \in a, q \in b }

\* run_analysis, line 55: analyze_peak_hours(data, kmeans=True, gmm=True,
\* agglo=True, overlap=True, graph=False)
InitExport ==
  /\ data \in ExportFrames
  /\ kmeans = TRUE
  /\ gmm = TRUE
  /\ agglo = TRUE
  /\ overlap = TRUE
  /\ graph = FALSE
  /\ Idle
  /\ NoOrders

\* analyze_peak_hours called with any flags, graph among them, on the same
\* frames
InitFigures ==
  /\ data \in ExportFrames
  /\ kmeans \in BOOLEAN
  /\ gmm \in BOOLEAN
  /\ agglo \in BOOLEAN
  /\ overlap \in BOOLEAN
  /\ graph \in BOOLEAN
  /\ Idle
  /\ NoOrders

SpecFigures == InitFigures /\ [][Next]_vars

RECURSIVE PeakHoursData(_, _, _)
\* lines 65-102: for concept, concept_results in results.items(), the rows
\* of each method frame present, in the order kmeans, gmm, agglo
PeakHoursData(res, keys, i) ==
  IF i > Len(keys) THEN << >>
  ELSE LET c == keys[i]
           rowsOf(m) ==
             IF m \in DOMAIN res[c]
             THEN [k \in DOMAIN res[c][m] |->
                     [concept |-> c, method |-> m, hour |-> res[c][m][k].hour,
                      normalized_order_count |-> res[c][m][k].normalized_order_count,
                      is_peak |-> TRUE]]
             ELSE << >>
       IN rowsOf("kmeans") \o rowsOf("gmm") \o rowsOf("agglo")
             \o PeakHoursData(res, keys, i + 1)

RECURSIVE OverlapData(_, _, _)
\* lines 107-119: the rows of every concept's agreement table, with the
\* concept added
OverlapData(res, keys, i) ==
  IF i > Len(keys) THEN << >>
  ELSE LET c == keys[i]
           rows ==
             IF "overlap_analysis" \in DOMAIN res[c]
             THEN LET t == res[c]["overlap_analysis"]
                  IN [k \in DOMAIN t |->
                        [concept |-> c, hour |-> t[k].hour,
                         overlap_count |-> t[k].overlap_count,
                         overlap_category |-> t[k].overlap_category,
                         normalized_order_count |-> t[k].normalized_order_count]]
             ELSE << >>
       IN rows \o OverlapData(res, keys, i + 1)

\* variant: rows on which every method agrees
HighAgreementAll(t) ==
  LET high(r) == r.overlap_count > 2 IN SelectSeq(t, high)

\* line 129: overlap_df.filter(pl.col('overlap_count') >= 2)
HighAgreement(t) ==
  LET high(r) == r.overlap_count >= 2 IN SelectSeq(t, high)

RECURSIVE SummaryData(_, _, _)
\* lines 124-138: the high-agreement rows of every concept's agreement table
SummaryData(res, keys, i) ==
  IF i > Len(keys) THEN << >>
  ELSE LET c == keys[i]
           rows ==
             IF "overlap_analysis" \in DOMAIN res[c]
             THEN LET t == HighAgreement(res[c]["overlap_analysis"])
                  IN [k \in DOMAIN t |->
                        [concept |-> c, hour |-> t[k].hour,
                         agreement_level |-> t[k].overlap_category,
                         agreement_count |-> t[k].overlap_count,
                         normalized_order_count |-> t[k].normalized_order_count]]
             ELSE << >>
       IN rows \o SummaryData(res, keys, i + 1)

RECURSIVE LastOverlapFrame(_, _, _, _)
\* line 128: inside the summary loop the name overlap_df is bound again, to
\* the agreement frame of the concept at hand; after the loop it holds the
\* frame of the last concept that has one
LastOverlapFrame(res, keys, i, bound) ==
  IF i > Len(keys) THEN bound
  ELSE LastOverlapFrame(res, keys, i + 1,
          IF "overlap_analysis" \in DOMAIN res[keys[i]]
          THEN res[keys[i]]["overlap_analysis"]
          ELSE bound)

\* lines 65-104
PreparePeakHours ==
  /\ pc = "done"
  /\ peak_hours_df' = PeakHoursData(results, visited, 1)
  /\ pc' = "prepare_overlap"
  /\ UNCHANGED << inputs, thresholding, concept_hourly_avg, concepts, concept,
                  concept_data, peak_hours_by_method, cluster, results, error,
                  returned, visited, figures, overlap_df, summary_df, data_for_postgres >>

\* lines 106-121
PrepareOverlap ==
  /\ pc = "prepare_overlap"
  /\ overlap_df' = OverlapData(results, visited, 1)
  /\ pc' = "prepare_summary"
  /\ UNCHANGED << inputs, thresholding, concept_hourly_avg, concepts, concept,
                  concept_data, peak_hours_by_method, cluster, results, error,
                  returned, visited, figures, peak_hours_df, summary_df, data_for_postgres >>

\* lines 123-140
PrepareSummary ==
  /\ pc = "prepare_summary"
  /\ summary_df' = SummaryData(results, visited, 1)
  /\ overlap_df' = LastOverlapFrame(results, visited, 1, overlap_df)
  /\ pc' = "prepare_return"
  /\ UNCHANGED << inputs, thresholding, concept_hourly_avg, concepts, concept,
                  concept_data, peak_hours_by_method, cluster, results, error,
                  returned, visited, figures, peak_hours_df, data_for_postgres >>

\* lines 142-146
PrepareReturn ==
  /\ pc = "prepare_return"
  /\ data_for_postgres' = [peak_hours |-> peak_hours_df,
                           overlap_analysis |-> overlap_df,
                           summary |-> summary_df]
  /\ pc' = "prepared"
  /\ UNCHANGED << inputs, thresholding, concept_hourly_avg, concepts, concept,
                  concept_data, peak_hours_by_method, cluster, results, error,
                  returned, visited, figures, peak_hours_df, overlap_df, summary_df >>

NextExport ==
  \/ Aggregate
  \/ BeginConcept
  \/ KMeansStep
  \/ GmmStep
  \/ AggloStep
  \/ OverlapStep
  \/ GraphStep
  \/ Return
  \/ PreparePeakHours
  \/ PrepareOverlap
  \/ PrepareSummary
  \/ PrepareReturn

SpecExport == InitExport /\ [][NextExport]_vars

\* --------------------------------------------------------------------- C12
\* the agreement rows with overlap_count >= 2 of every concept, as the summary
\* should list them
HighConfidenceRows ==
  UNION { { [concept |-> c, hour |-> TableOf(c)[i].hour,
             agreement_level |-> TableOf(c)[i].overlap_category,
             agreement_count |-> TableOf(c)[i].overlap_count]
            : i \in { j \in DOMAIN TableOf(c) : TableOf(c)[j].overlap_count >= 2 } }
          : c \in { x \in DOMAIN results : HasTable(x) } }

\* C12: once the summary table is built it holds, for every concept, exactly
\* the agreement rows with overlap_count >= 2, each once, with the row's own
\* concept, hour and category; no row with overlap_count 0 or 1 is in it.
C12_SummaryIsHighAgreement ==
  (pc \in {"prepare_return", "prepared"}) =>
     /\ { [concept |-> summary_df[k].concept, hour |-> summary_df[k].hour,
           agreement_level |-> summary_df[k].agreement_level,
           agreement_count |-> summary_df[k].agreement_count]
         : k \in DOMAIN summary_df } = HighConfidenceRows
     /\ Len(summary_df) = Cardinality(HighConfidenceRows)
     /\ \A k \in DOMAIN summary_df : summary_df[k].agreement_count \in {2, 3}
     /\ (pc = "prepared") => data_for_postgres["summary"] = summary_df

C12_Witness ==
  /\ pc = "prepared"
  /\ Len(visited) = 2
  /\ \A c \in {"A", "B"} : \E k \in DOMAIN summary_df : summary_df[k].concept = c
  /\ \E i \in DOMAIN TableOf("A") : TableOf("A")[i].overlap_count = 1
  /\ \E k \in DOMAIN summary_df : summary_df[k].agreement_count = 2
  /\ \E k \in DOMAIN summary_df : summary_df[k].agreement_count = 3

\* ======================================================================
\* preprocess.py: find_sensitive_threshold and the per-order-type loop.
\*
\* Quantiles are counted in units of 1/QuantileUnit, so that the grid of the
\* defaults (0.935 to 0.985 in steps of 0.001) and grids in steps of 1/16 are
\* both whole numbers. Durations are whole minutes. window_length and
\* polyorder are arguments of the function: 7 and 2 by default, 15 and 3 in
\* the call the script makes. The Savitzky-Golay filter is modelled exactly,
\* for odd windows and polynomial orders up to 3, as the least-squares
\* polynomial through each window, with mode 'interp' at the two ends; its
\* outputs are kept as integers, each pass multiplied by the common
\* denominator of its coefficients. Slopes are kept in units of one grid
\* step: a positive common factor changes neither the normalised values nor
\* the argmax.
\* ======================================================================
MaxSamples == 10       \* durations of an order type, in the script's loop
MaxCallSamples == 4    \* durations of an order type, in a call of the function
MaxDuration == 2
QuantileUnit == 2000

\* line 28: quantile_min=0.935, quantile_max=0.985, quantile_step=0.001
DefaultQuantileMin == 1870
DefaultQuantileMax == 1970
DefaultQuantileStep == 2
\* line 29: window_length=7, polyorder=2
DefaultWindowLength == 7
DefaultPolyOrder == 2
\* line 77: window_length=15, polyorder=3
ScriptWindowLength == 15
ScriptPolyOrder == 3
\* line 48: min(polyorder, 1)
SecondPolyOrderCap == 1
StartPercent == 10
ThresholdPercent == 15

OrderTypes == {"dinein", "takeout"}

\* the non-null durations of one order type, sorted; << >> is an order type
\* whose durations are all null
RECURSIVE ColumnsOfLength(_)
ColumnsOfLength(n) ==
  IF n = 0 THEN { << >> }
  ELSE UNION { { Append(c, v) : v \in (IF n = 1 THEN 0 ELSE c[n - 1])..MaxDuration }
               : c \in ColumnsOfLength(n - 1) }

ColumnsUpTo(max) == UNION { ColumnsOfLength(n) : n \in 0..max }

Columns == ColumnsUpTo(MaxSamples)

SiblingColumns == { << >>, << 0, 1, 2 >> }

\* the orders the script reads: one order type, or two
Datasets ==
  { ("dinein" :> c) : c \in Columns }
  \cup { ("dinein" :> c) @@ ("takeout" :> << 0, 1, 2 >>) : c \in Columns }

\* the frames the function is called on
CallDatasets ==
  { ("dinein" :> c) : c \in ColumnsUpTo(MaxCallSamples) }
  \cup { ("dinein" :> c) @@ ("takeout" :> d) :
           c \in ColumnsUpTo(MaxCallSamples), d \in SiblingColumns }

\* the variables of analyze_peak_hours, which preprocess.py does not touch
segmentation ==
  << concept_hourly_avg, concepts, concept, concept_data, peak_hours_by_method,
     cluster, results, returned, visited, figures >>

\* the arguments of find_sensitive_threshold
arguments == << quantile_min, quantile_max, quantile_step, window_length, polyorder >>

\* lines 17-24: the orders are read; the function has not been called
InitThreshold ==
  /\ data = << >>
  /\ kmeans = FALSE
  /\ gmm = FALSE
  /\ agglo = FALSE
  /\ overlap = FALSE
  /\ graph = FALSE
  /\ Idle
  /\ df \in Datasets
  /\ IdleThresholds

\* line 36: np.arange(quantile_min, quantile_max, quantile_step), which has
\* ceil((quantile_max - quantile_min) / quantile_step) points
Quantiles(qmin, qmax, step) ==
  [i \in 1..((qmax - qmin + step - 1) \div step) |-> qmin + (i - 1) * step]

\* line 37: pl.col(column_name).quantile(q), interpolation 'nearest': the
\* sorted value at position round((n - 1) * q); None (<< >>) without values
Quantile(col, q) ==
  IF col = << >> THEN << >>
  ELSE << col[(((Len(col) - 1) * q * 2 + QuantileUnit) \div (2 * QuantileUnit)) + 1] >>

\* the first n elements of f, as a tuple
AsTuple(f, n) == SubSeq(f, 1, n)

\* np.diff
Diff(x) == AsTuple([i \in 1..(Len(x) - 1) |-> x[i + 1] - x[i]], Len(x) - 1)

Abs(x) == IF x < 0 THEN 0 - x ELSE x

RECURSIVE GCD(_, _)
GCD(a, b) == IF b = 0 THEN a ELSE GCD(b, a % b)

LCM(a, b) == (a \div GCD(a, b)) * b

RECURSIVE SumTo(_, _)
\* the sum of the first n elements of f
SumTo(f, n) == IF n = 0 THEN 0 ELSE f[n] + SumTo(f, n - 1)

\* the sum of the e-th powers of the positions, e even
PowerSum(window, e) ==
  2 * SumTo([x \in 1..(window \div 2) |-> x ^ e], window \div 2)

RECURSIVE GCDOf(_, _)
\* the greatest common divisor of the first n elements of x
GCDOf(x, n) == IF n = 0 THEN 0 ELSE GCD(Abs(x[n]), GCDOf(x, n - 1))

RECURSIVE LCMOf(_, _)
\* the least common multiple of the first n elements of x
LCMOf(x, n) == IF n = 1 THEN x[1] ELSE LCM(x[n], LCMOf(x, n - 1))

\* the polynomial of a degree from 0 to 3 that is orthogonal, over the
\* positions of the window, to those of lower degree: its values at the
\* positions, as whole numbers free of a common factor
GramValues(window, degree) ==
  LET s2 == PowerSum(window, 2)
      s4 == PowerSum(window, 4)
      at(x) == CASE degree = 0 -> 1
                 [] degree = 1 -> x
                 [] degree = 2 -> window * x ^ 2 - s2
                 [] degree = 3 -> s2 * x ^ 3 - s4 * x
      raw == AsTuple([k \in 1..window |-> at(k - 1 - (window \div 2))], window)
      divisor == GCDOf(raw, window)
  IN AsTuple([k \in 1..window |-> raw[k] \div divisor], window)

\* the filter's coefficients, row by row, times their common denominator:
\* row j holds the weights of the points of a window in the value, at the
\* window's j-th position, of the least-squares polynomial of degree
\* `order` through the window
SavGolRows(window, order) ==
  LET degrees == 1..(order + 1)
      gram == AsTuple([d \in degrees |-> GramValues(window, d - 1)], order + 1)
      norm == AsTuple([d \in degrees |->
                         SumTo([k \in 1..window |-> gram[d][k] ^ 2], window)],
                      order + 1)
      scale == LCMOf(norm, order + 1)
  IN AsTuple([j \in 1..window |->
                AsTuple([k \in 1..window |->
                           SumTo([d \in degrees |->
                                    (scale \div norm[d]) * gram[d][j] * gram[d][k]],
                                 order + 1)],
                        window)],
             window)

\* savgol_filter raises ValueError: polyorder must be less than
\* window_length; window_length must not exceed the length of x
SavGolRejects(len, window, order) == order >= window \/ window > len

\* savgol_filter(x, window_length=window, polyorder=order), mode
\* 'interp', times the common denominator of its coefficients: inside, the
\* centre of the polynomial through the window around i; in the first and
\* last half window, the polynomial through the first or last window, at
\* position i
SavGol(x, window, order) ==
  LET c == SavGolRows(window, order)
      half == window \div 2
      n == Len(x)
  IN AsTuple([i \in 1..n |->
                IF i <= half
                THEN SumTo([k \in 1..window |-> c[i][k] * x[k]], window)
                ELSE IF i > n - half
                     THEN SumTo([k \in 1..window |->
                                   c[window - (n - i)][k] * x[n - window + k]],
                                window)
                     ELSE SumTo([k \in 1..window |->
                                   c[half + 1][k] * x[i - half - 1 + k]],
                                window)],
             n)

\* line 48: min(window_length, len(second_derivatives) - 2), min(polyorder, 1)
SecondWindow(window, len) == IF window < len - 2 THEN window ELSE len - 2
SecondPolyOrder(order) == IF order < SecondPolyOrderCap THEN order ELSE SecondPolyOrderCap

MaxAbs(x) == CHOOSE m \in { Abs(x[i]) : i \in DOMAIN x } :
                \A j \in DOMAIN x : Abs(x[j]) <= m

\* the largest whole number not above ThresholdPercent hundredths of m
ThresholdOf(m) ==
  ThresholdPercent * (m \div 100) + (ThresholdPercent * (m % 100)) \div 100

\* lines 49 and 54: normalized_second_derivatives[i] > threshold, i counted
\* from 0; with an all-zero array the quotient is NaN and the test is false
Exceeds(x, i) ==
  /\ MaxAbs(x) > 0
  /\ x[i + 1] > ThresholdOf(MaxAbs(x))

\* variant: one tenth of the quantile grid
StartIndexOfGrid(len) == ((len + 2) * StartPercent) \div 100

\* line 50: int(len(normalized_second_derivatives) * 0.1)
StartIndex(len) == (len * StartPercent) \div 100

\* variant: the last of the largest elements
ArgMaxLast(x) ==
  (CHOOSE i \in DOMAIN x :
      /\ \A j \in DOMAIN x : x[j] <= x[i]
      /\ \A j \in DOMAIN x : (j > i) => x[j] < x[i]) - 1

\* np.argmax: the first of the largest elements, counted from 0
ArgMax(x) ==
  (CHOOSE i \in DOMAIN x :
      /\ \A j \in DOMAIN x : x[j] <= x[i]
      /\ \A j \in DOMAIN x : (j < i) => x[j] < x[i]) - 1

\* lines 53-58: the indices the for loop would stop at
ScanHits(x, start) == { i \in start..(Len(x) - 1) : Exceeds(x, i) }

\* line 60: min(max(0, non_linear_index), len(quantiles) - 2)
Clamp(idx, n) ==
  LET low == IF idx < 0 THEN 0 ELSE idx
  IN IF low < n - 2 THEN low ELSE n - 2

\* variant: the value one grid point further
ThresholdResultNextValue(qs, qv, idx) ==
  [non_linear_quantile |-> qs[idx + 1], non_linear_value |-> qv[idx + 2][1]]

\* lines 61-67
ThresholdResult(qs, qv, idx) ==
  [non_linear_quantile |-> qs[idx + 1], non_linear_value |-> qv[idx + 1][1]]

RECURSIVE Concat(_, _)
\* line 85: pl.concat(filtered_datasets), one row per duration
Concat(frames, i) ==
  IF i > Len(frames) THEN << >>
  ELSE [k \in DOMAIN frames[i].durations |->
          [order_take_out_type_label |-> frames[i].order_type,
           order_duration_minutes |-> frames[i].durations[k]]]
       \o Concat(frames, i + 1)

\* lines 70-72
ListTypes ==
  /\ pc = "start"
  /\ order_types' = DOMAIN df
  /\ thresholds_per_type' = EmptyDict
  /\ filtered_datasets' = << >>
  /\ pc' = "types"
  /\ UNCHANGED << inputs, exported, segmentation, error, df, arg_df,
                  arguments, order_type, type_df, quantiles, quantile_values,
                  smooth_second_derivatives, start_idx, scan_hit,
                  non_linear_index, skipped, combined_filtered_df >>

\* lines 74-77: next iteration of `for order_type in order_types`, up to the
\* call find_sensitive_threshold(type_df, order_type=order_type,
\* column_name='order_duration_minutes', window_length=15, polyorder=3) on
\* the rows of that type; the grid is the one of the defaults of line 28
BeginType ==
  /\ pc = "types"
  /\ \E t \in order_types :
       /\ order_type' = t
       /\ order_types' = order_types \ {t}
       /\ type_df' = df[t]
       /\ arg_df' = (t :> df[t])
  /\ quantile_min' = DefaultQuantileMin
  /\ quantile_max' = DefaultQuantileMax
  /\ quantile_step' = DefaultQuantileStep
  /\ window_length' = ScriptWindowLength
  /\ polyorder' = ScriptPolyOrder
  /\ quantiles' = << >>
  /\ quantile_values' = << >>
  /\ smooth_second_derivatives' = << >>
  /\ start_idx' = 0
  /\ scan_hit' = -1
  /\ non_linear_index' = -1
  /\ pc' = "curve"
  /\ UNCHANGED << inputs, exported, segmentation, error, df,
                  thresholds_per_type, skipped, filtered_datasets,
                  combined_filtered_df >>

\* the durations of every row of a frame, sorted
Occurrences(frame, v) ==
  SumOf([t \in DOMAIN frame |->
           Cardinality({ i \in DOMAIN frame[t] : frame[t][i] = v })], DOMAIN frame)

RECURSIVE SortedFrom(_, _)
SortedFrom(frame, v) ==
  IF v > MaxDuration THEN << >>
  ELSE [i \in 1..Occurrences(frame, v) |-> v] \o SortedFrom(frame, v + 1)

\* line 37: df.select(pl.col(column_name)...), the column of the frame the
\* function was given; the type_df of line 33 is not read
CurveColumn(frame) == SortedFrom(frame, 0)

\* lines 33-37
BuildCurve ==
  /\ pc = "curve"
  /\ quantiles' = Quantiles(quantile_min, quantile_max, quantile_step)
  /\ quantile_values' =
       [i \in DOMAIN Quantiles(quantile_min, quantile_max, quantile_step) |->
          Quantile(CurveColumn(arg_df),
                   Quantiles(quantile_min, quantile_max, quantile_step)[i])]
  /\ pc' = "smooth"
  /\ UNCHANGED << inputs, exported, segmentation, error, df, arg_df,
                  arguments, order_types, order_type, type_df,
                  smooth_second_derivatives, start_idx, scan_hit,
                  non_linear_index, thresholds_per_type, skipped,
                  filtered_datasets, combined_filtered_df >>

\* an exception leaves find_sensitive_threshold and, nothing catching it,
\* the script
RaiseInThreshold(e) ==
  /\ pc' = "raised"
  /\ error' = e
  /\ UNCHANGED << inputs, exported, segmentation, thresholding >>

\* lines 40-49: slopes, first smoothing, second derivative, second smoothing.
\* np.diff of a list of None raises TypeError.
Smooth ==
  /\ pc = "smooth"
  /\ IF \E i \in DOMAIN quantile_values : quantile_values[i] = << >>
     THEN RaiseInThreshold("TypeError")
     ELSE LET slopes == Diff([i \in DOMAIN quantile_values |-> quantile_values[i][1]])
          IN IF SavGolRejects(Len(slopes), window_length, polyorder)
             THEN RaiseInThreshold("ValueError")
             ELSE LET second_derivatives ==
                         Diff(SavGol(slopes, window_length, polyorder))
                  IN IF SavGolRejects(Len(second_derivatives),
                                      SecondWindow(window_length, Len(second_derivatives)),
                                      SecondPolyOrder(polyorder))
                     THEN RaiseInThreshold("ValueError")
                     ELSE /\ smooth_second_derivatives' =
                               SavGol(second_derivatives,
                                      SecondWindow(window_length, Len(second_derivatives)),
                                      SecondPolyOrder(polyorder))
                          /\ pc' = "scan"
                          /\ UNCHANGED << inputs, exported, segmentation,
                                          error, df, arg_df, arguments,
                                          order_types, order_type, type_df,
                                          quantiles, quantile_values,
                                          start_idx, scan_hit,
                                          non_linear_index,
                                          thresholds_per_type, skipped,
                                          filtered_datasets,
                                          combined_filtered_df >>

\* lines 50-58: the scan and its for-else fallback
Scan ==
  /\ pc = "scan"
  /\ LET start == StartIndex(Len(smooth_second_derivatives))
         hits == ScanHits(smooth_second_derivatives, start)
     IN /\ start_idx' = start
        /\ scan_hit' = IF hits = {} THEN -1 ELSE Min(hits)
        /\ non_linear_index' =
              IF hits = {} THEN ArgMax(smooth_second_derivatives) + 1
              ELSE Min(hits) + 1
  /\ pc' = "clamp"
  /\ UNCHANGED << inputs, exported, segmentation, error, df, arg_df,
                  arguments, order_types, order_type, type_df, quantiles,
                  quantile_values, smooth_second_derivatives,
                  thresholds_per_type, skipped, filtered_datasets,
                  combined_filtered_df >>

\* lines 60-67 and 78-80: clamp, return the result; the caller records it and
\* appends type_df. The result is never None, so the warning of lines 81-82
\* is never printed and `skipped` stays as it is.
ClampAndReturn ==
  /\ pc = "clamp"
  /\ non_linear_index' = Clamp(non_linear_index, Len(quantiles))
  /\ thresholds_per_type' =
       (order_type :> ThresholdResult(quantiles, quantile_values,
                                      Clamp(non_linear_index, Len(quantiles))))
       @@ thresholds_per_type
  /\ filtered_datasets' =
       Append(filtered_datasets, [order_type |-> order_type, durations |-> type_df])
  /\ pc' = "types"
  /\ UNCHANGED << inputs, exported, segmentation, error, df, arg_df,
                  arguments, order_types, order_type, type_df, quantiles,
                  quantile_values, smooth_second_derivatives, start_idx,
                  scan_hit, skipped, combined_filtered_df >>

\* lines 85-98: after the loop, concatenate and save
Combine ==
  /\ pc = "types"
  /\ order_types = {}
  /\ combined_filtered_df' = Concat(filtered_datasets, 1)
  /\ pc' = "saved"
  /\ UNCHANGED << inputs, exported, segmentation, error, df, arg_df,
                  arguments, order_types, order_type, type_df, quantiles,
                  quantile_values, smooth_second_derivatives, start_idx,
                  scan_hit, non_linear_index, thresholds_per_type, skipped,
                  filtered_datasets >>

NextThreshold ==
  \/ ListTypes
  \/ BeginType
  \/ BuildCurve
  \/ Smooth
  \/ Scan
  \/ ClampAndReturn
  \/ Combine

SpecThreshold == InitThreshold /\ [][NextThreshold]_vars

\* find_sensitive_threshold has just returned to the loop
JustReturned == pc = "types" /\ order_type # ""

\* find_sensitive_threshold has returned, to the loop or to another caller
HasReturned == JustReturned \/ pc = "returned"

\* --------------------------------------------------------------------- C13
\* C13: whenever find_sensitive_threshold returns, the inflection index it
\* used lies in 0..N-2, N being the number of grid points, the returned
\* quantile and value are the grid point and the curve value at that index,
\* and the returned value is the quantile, at the returned grid point, of the
\* column of the frame the function was given.
C13_ResultAtClampedIndex ==
  HasReturned =>
     /\ non_linear_index \in 0..(Len(quantiles) - 2)
     /\ thresholds_per_type[order_type].non_linear_quantile
           = quantiles[non_linear_index + 1]
     /\ thresholds_per_type[order_type].non_linear_value
           = quantile_values[non_linear_index + 1][1]
     /\ << thresholds_per_type[order_type].non_linear_value >>
           = Quantile(CurveColumn(arg_df),
                      thresholds_per_type[order_type].non_linear_quantile)

C13_Witness ==
  /\ HasReturned
  /\ non_linear_index >= 2
  /\ \E i \in DOMAIN quantile_values :
        quantile_values[i][1] > thresholds_per_type[order_type].non_linear_value
  /\ \E i \in DOMAIN quantile_values :
        quantile_values[i][1] < thresholds_per_type[order_type].non_linear_value

\* --------------------------------------------------------------------- C14
\* C14 as claimed: the scan starts at floor(0.1 * N), N the number of grid
\* points: no index before it is selected, and the first exceeding index at
\* or after it is selected, the inflection index being that index plus 1.
C14_AsClaimed ==
  (pc = "clamp") =>
     LET start == (Len(quantiles) * StartPercent) \div 100
         hits == { i \in start..(Len(smooth_second_derivatives) - 1) :
                     Exceeds(smooth_second_derivatives, i) }
     IN /\ (scan_hit # -1) => scan_hit >= start
        /\ (hits # {}) =>
              /\ scan_hit \in hits
              /\ \A i \in hits : scan_hit <= i
              /\ non_linear_index = scan_hit + 1

\* C14 amended: the scan starts at floor(0.1 * (N - 2)), one tenth of the
\* length of the normalized second-difference array, which has N - 2
\* elements: no index before it is selected, and the first exceeding index
\* at or after it is selected, the inflection index being that index plus 1.
C14_ScanFromTenthOfArray ==
  (pc = "clamp") =>
     LET start == ((Len(quantiles) - 2) * StartPercent) \div 100
         hits == { i \in start..(Len(smooth_second_derivatives) - 1) :
                     Exceeds(smooth_second_derivatives, i) }
     IN /\ Len(smooth_second_derivatives) = Len(quantiles) - 2
        /\ start_idx = start
        /\ (scan_hit # -1) => scan_hit >= start
        /\ (hits # {}) =>
              /\ scan_hit \in hits
              /\ \A i \in hits : scan_hit <= i
              /\ non_linear_index = scan_hit + 1

C14_Witness ==
  /\ pc = "clamp"
  /\ start_idx = 4
  /\ \E i \in 0..3 : Exceeds(smooth_second_derivatives, i)
  /\ scan_hit >= 4
  /\ \E i \in (scan_hit + 1)..(Len(smooth_second_derivatives) - 1) :
        Exceeds(smooth_second_derivatives, i)

\* --------------------------------------------------------------------- C15
\* C15 as claimed: threshold detection fails only with InsufficientDataError,
\* and the smoothing filter is passed only arrays at least as long as the
\* smoothing window.
C15_AsClaimed ==
  /\ (pc = "raised") => error = "InsufficientDataError"
  /\ (pc \in {"scan", "clamp"}) => Len(quantiles) - 2 >= window_length

\* --------------------------------------------------------------------- C16
\* C16 as claimed: when the threshold loop has ended, every order type of the
\* data is either mapped to its threshold result or was reported as failed.
C16_AsClaimed ==
  (pc \in {"saved", "raised"}) =>
     \A t \in DOMAIN df : t \in DOMAIN thresholds_per_type \/ t \in skipped

\* --------------------------------------------------------------------- C17
\* C17 as claimed: no record of the saved dataset has a duration above the
\* threshold value of its order type.
C17_AsClaimed ==
  (pc = "saved") =>
     \A k \in DOMAIN combined_filtered_df :
        combined_filtered_df[k].order_duration_minutes
           <= thresholds_per_type[combined_filtered_df[k].order_take_out_type_label]
                 .non_linear_value

\* --------------------------------------------------------------------- C20
\* C20: when no index at or after the scan start has a normalized value above
\* 0.15, the inflection index is 1 plus the position of the first largest
\* element of the smoothed second difference, and find_sensitive_threshold
\* returns a result for the order type.
C20_FallbackIsArgMax ==
  /\ (pc = "clamp" /\ \A i \in start_idx..(Len(smooth_second_derivatives) - 1) :
                          ~Exceeds(smooth_second_derivatives, i)) =>
        /\ scan_hit = -1
        /\ \E i \in 0..(Len(smooth_second_derivatives) - 1) :
              /\ \A j \in 0..(Len(smooth_second_derivatives) - 1) :
                    /\ smooth_second_derivatives[j + 1] <= smooth_second_derivatives[i + 1]
                    /\ (j < i) => smooth_second_derivatives[j + 1]
                                     < smooth_second_derivatives[i + 1]
              /\ non_linear_index = i + 1
  /\ (HasReturned /\ scan_hit = -1) =>
        /\ order_type \in DOMAIN thresholds_per_type
        /\ non_linear_index \in 0..(Len(quantiles) - 2)
  /\ (pc = "raised") => non_linear_index = -1

C20_Witness ==
  /\ HasReturned
  /\ scan_hit = -1
  /\ start_idx >= 1
  /\ Exceeds(smooth_second_derivatives, 0)
  /\ order_type \in DOMAIN thresholds_per_type

\* --------------------------------------------------------------------- C21
\* C21 as claimed: the agreement table prepare_data_for_postgres returns holds
\* the rows of every concept's agreement table and no others, each with its
\* concept, hour, overlap_count, overlap_category and normalized_order_count;
\* building the summary has not replaced it.
C21_AsClaimed ==
  (pc = "prepared") =>
     LET t == data_for_postgres["overlap_analysis"]
         with_table == { c \in DOMAIN results : HasTable(c) }
     IN /\ Len(t) = SumOf([c \in with_table |-> Len(TableOf(c))], with_table)
        /\ \A k \in DOMAIN t : "concept" \in DOMAIN t[k]
        /\ \A c \in with_table : \A i \in DOMAIN TableOf(c) :
              \E k \in DOMAIN t :
                 /\ "concept" \in DOMAIN t[k]
                 /\ t[k].concept = c
                 /\ t[k].hour = TableOf(c)[i].hour
                 /\ t[k].overlap_count = TableOf(c)[i].overlap_count
                 /\ t[k].overlap_category = TableOf(c)[i].overlap_category
                 /\ t[k].normalized_order_count = TableOf(c)[i].normalized_order_count

\* ======================================================================
\* find_sensitive_threshold called on a whole dataset, for one of its order
\* types: find_sensitive_threshold(df, order_type=t, ...).
\* ======================================================================

InitCall ==
  /\ data = << >>
  /\ kmeans = FALSE
  /\ gmm = FALSE
  /\ agglo = FALSE
  /\ overlap = FALSE
  /\ graph = FALSE
  /\ Idle
  /\ df \in CallDatasets
  /\ IdleThresholds

\* window_length and polyorder of a call: the defaults of line 29, the values
\* of the script's call, and the smallest window with a line through it
CallShapes ==
  { << DefaultWindowLength, DefaultPolyOrder >>,
    << ScriptWindowLength, ScriptPolyOrder >>,
    << 3, 1 >> }

\* quantile_min, quantile_max and quantile_step of a call: the defaults of
\* line 28, and grids of 3, 5, 9 and 12 points from 1/8 in steps of 1/16
CallGrids ==
  { << DefaultQuantileMin, DefaultQuantileMax, DefaultQuantileStep >> }
  \cup { << QuantileUnit \div 8, QuantileUnit \div 8 + n * (QuantileUnit \div 16),
           QuantileUnit \div 16 >> : n \in {3, 5, 9, 12} }

\* the call find_sensitive_threshold(df, order_type=t, quantile_min=...,
\* quantile_max=..., quantile_step=..., window_length=..., polyorder=...);
\* line 33 filters the rows of the order type into type_df
CallOnDataset ==
  /\ pc = "start"
  /\ \E t \in DOMAIN df :
       /\ order_type' = t
       /\ type_df' = df[t]
  /\ \E grid \in CallGrids :
       /\ quantile_min' = grid[1]
       /\ quantile_max' = grid[2]
       /\ quantile_step' = grid[3]
  /\ \E shape \in CallShapes :
       /\ window_length' = shape[1]
       /\ polyorder' = shape[2]
  /\ arg_df' = df
  /\ pc' = "curve"
  /\ UNCHANGED << inputs, exported, segmentation, error, df, order_types, quantiles, quantile_values,
                  smooth_second_derivatives, start_idx, scan_hit,
                  non_linear_index, thresholds_per_type, skipped,
                  filtered_datasets, combined_filtered_df >>

\* lines 60-67: clamp and return; the caller keeps the result under the order
\* type it asked for
ReturnToCaller ==
  /\ pc = "clamp"
  /\ non_linear_index' = Clamp(non_linear_index, Len(quantiles))
  /\ thresholds_per_type' =
       (order_type :> ThresholdResult(quantiles, quantile_values,
                                      Clamp(non_linear_index, Len(quantiles))))
  /\ pc' = "returned"
  /\ UNCHANGED << inputs, exported, segmentation, error, df, arg_df, arguments, order_types, order_type, type_df, quantiles,
                  quantile_values, smooth_second_derivatives, start_idx,
                  scan_hit, skipped, filtered_datasets, combined_filtered_df >>

NextCall ==
  \/ CallOnDataset
  \/ BuildCurve
  \/ Smooth
  \/ Scan
  \/ ReturnToCaller

SpecCall == InitCall /\ [][NextCall]_vars

\* --------------------------------------------------------------------- C22
\* what the detector makes of one column on the grid qs, with the window and
\* the order of the call
DetectedOn(col, qs) ==
  LET curve == [i \in DOMAIN qs |-> Quantile(col, qs[i])[1]]
      second_derivatives == Diff(SavGol(Diff(curve), window_length, polyorder))
      smoothed == SavGol(second_derivatives,
                         SecondWindow(window_length, Len(second_derivatives)),
                         SecondPolyOrder(polyorder))
      hits == ScanHits(smoothed, StartIndex(Len(smoothed)))
      idx == IF hits = {} THEN ArgMax(smoothed) + 1 ELSE Min(hits) + 1
  IN [non_linear_quantile |-> qs[Clamp(idx, Len(qs)) + 1],
      non_linear_value |-> curve[Clamp(idx, Len(qs)) + 1]]

\* C22 as claimed: the threshold find_sensitive_threshold returns for order
\* type t is the one it returns on the rows of type t alone, whatever rows
\* of other order types the dataset holds; with no duration of type t there
\* is no threshold.
C22_AsClaimed ==
  (pc = "returned") =>
     /\ df[order_type] # << >>
     /\ thresholds_per_type[order_type] = DetectedOn(df[order_type], quantiles)

====
